---- MODULE Spec2Model ----
(***************************************************************************)
(* cfstructs: the robin-hood hashmap (cf_hashmap.hpp) and the robin-hood   *)
(* hashset (cf_hashset.hpp), both working in a caller-supplied buffer.      *)
(*                                                                         *)
(* 32-bit unsigned values are kept as records [hi, lo] standing for         *)
(* hi * 2^31 + lo, so that bit 31 (the DELETED flag) and the wrap-around of *)
(* unsigned subtraction are computed exactly as the C++ code computes them. *)
(***************************************************************************)
EXTENDS Integers, Sequences, FiniteSets, TLC

VARIABLES kind, table, model, kept, clean, hung, last,
          copied, after, clast,
          twin,
          legacy,
          pool, held, ub, plast

\* The variables of the hashmap / hashset and those of the memorypool.
tablevars == <<kind, table, model, kept, clean, hung, last>>
copyvars == <<copied, after, clast>>
poolvars == <<pool, held, ub, plast>>
vars == <<kind, table, model, kept, clean, hung, last, copied, after, clast,
          twin, legacy, pool, held, ub, plast>>

(***************************************************************************)
(* Bounds of the model.                                                    *)
(***************************************************************************)
\* Largest element count a buffer is sized for at construction.
MaxCapacity == 3
\* Largest element count a memorypool buffer is sized for.
MaxPoolCapacity == 3
\* set/insert calls are issued while num_elements < capacity + MaxOverfill.
MaxOverfill == 1
\* Number of set/insert/remove calls issued once the table has been copied.
MaxAfterCopy == 1
\* Largest element count a cf_hashmap buffer is sized for.
MaxLegacyElements == 3

(***************************************************************************)
(* uint32_t arithmetic.                                                    *)
(***************************************************************************)
\* 2^31 - 1, the largest value of the low 31 bits.
Low31Max == 2147483647

U32(hi, lo) == [hi |-> hi, lo |-> lo]

\* a < b on uint32_t
U32Lt(a, b) == \/ a.hi < b.hi
               \/ a.hi = b.hi /\ a.lo < b.lo

\* a - b on uint32_t (wraps modulo 2^32)
U32Sub(a, b) ==
    IF a.lo >= b.lo
    THEN U32((a.hi - b.hi) % 2, a.lo - b.lo)
    ELSE U32((a.hi - b.hi - 1) % 2, ((a.lo - b.lo) + Low31Max) + 1)

\* a + 1 on uint32_t (wraps modulo 2^32)
U32Inc(a) == IF a.lo = Low31Max THEN U32((a.hi + 1) % 2, 0)
                                ELSE U32(a.hi, a.lo + 1)

\* a % n for a uint32_t a and a small positive n
U32Mod(a, n) == ((a.hi * (((Low31Max % n) + 1) % n)) + (a.lo % n)) % n

\* a uint32_t compared with a size_t n that is far below 2^31: a < n
U32LtSize(a, n) == a.hi = 0 /\ a.lo < n

(***************************************************************************)
(* Sizes of the element types used by the tests: hashmap<uint32_t,uint16_t> *)
(* and hashset<uint32_t>.                                                  *)
(***************************************************************************)
SizeofHash == 4
SizeofKey == 4
SizeofValue == 2
SizeofElem == 4

CF_HASHMAP_GET_BUFFER_SIZE(num_elements) ==
    (SizeofHash + SizeofKey + SizeofValue) * num_elements

CF_HASHSET_GET_BUFFER_SIZE(num_elements) ==
    (SizeofHash + SizeofElem) * num_elements

(***************************************************************************)
(* Constants of the tables.                                                *)
(***************************************************************************)
EMPTY_HASH == U32(0, 0)

\* hash & DELETED_HASH_BIT
IsDeleted(hash) == hash.hi = 1
\* hash & ~DELETED_HASH_BIT
ClearDeleted(hash) == U32(0, hash.lo)
\* hash | DELETED_HASH_BIT
SetDeleted(hash) == U32(1, hash.lo)

\* Content of a key or value cell the table never wrote.
Uninit == 0

(***************************************************************************)
(* Inputs.                                                                 *)
(***************************************************************************)
\* The (hash, key) pairs callers pass to the map and the (hash, element)
\* pairs they pass to the set.  The four hashes take the four ways through
\* _hash: 0, a hash stored as it is, one with bit 31 set, and 2^31 itself.
\* Two keys share the stored hash 1, and one key comes under two hashes.
CallerPairs == {<<U32(0, 0), 13>>, <<U32(0, 1), 42>>,
                <<U32(1, 2), 13>>, <<U32(1, 0), 42>>}
\* Values of the map.
ValueDomain == {37, 1337}
\* The (hash, key, value) triples callers pass to hashmap::set: every pair
\* with the first value, and the first pair with the second value too.
CallerSets == {<<p[1], p[2], 37>> : p \in CallerPairs}
                 \cup {<<U32(0, 0), 13, 1337>>}

(***************************************************************************)
(* hashmap / hashset :: _hash                                              *)
(***************************************************************************)
\* _hash without the `hash == EMPTY_HASH` branch.
_hash_keeps_zero(hash) ==
    IF IsDeleted(hash) THEN ClearDeleted(hash) ELSE hash

_hash(hash) ==
    IF hash = EMPTY_HASH THEN U32(0, 1)
    ELSE IF IsDeleted(hash) THEN ClearDeleted(hash)
    ELSE hash

(***************************************************************************)
(* hashmap / hashset :: _get_probe_distance                                *)
(***************************************************************************)
_get_probe_distance(t, pos, hash) ==
    LET ideal_pos == U32Mod(ClearDeleted(hash), t.m_capacity)
    IN  U32Sub(U32(0, pos), U32(0, ideal_pos))

(***************************************************************************)
(* hashmap / hashset :: create                                             *)
(***************************************************************************)
CreateTable(capacity) ==
    [m_num_elements |-> 0,
     m_capacity     |-> capacity,
     hashes         |-> [i \in 0 .. capacity - 1 |-> EMPTY_HASH],
     keys           |-> [i \in 0 .. capacity - 1 |-> Uninit],
     values         |-> [i \in 0 .. capacity - 1 |-> Uninit]]

hashmap_create_rounds_up(buffer_size) ==
    CreateTable((buffer_size + SizeofKey + SizeofValue + SizeofHash - 1)
                    \div (SizeofKey + SizeofValue + SizeofHash))

hashmap_create(buffer_size) ==
    CreateTable(buffer_size \div (SizeofKey + SizeofValue + SizeofHash))

hashset_create(buffer_size) ==
    CreateTable(buffer_size \div (SizeofElem + SizeofHash))

(***************************************************************************)
(* hashmap :: _lookup_pos.  The while (42) loop has no bound of its own.   *)
(* A probe at distance >= capacity exits at the first slot that is EMPTY   *)
(* or whose probe distance is below capacity, so the unrolling stops       *)
(* reporting diverged once distance exceeds 2 * capacity without an exit.  *)
(***************************************************************************)
\* _lookup_pos without the `distance > _get_probe_distance(...)` exit.
RECURSIVE hashmap_lookup_loop_no_distance_exit(_, _, _, _, _)
hashmap_lookup_loop_no_distance_exit(t, hash, key, pos, distance) ==
    IF ~U32LtSize(distance, 2 * t.m_capacity + 1)
    THEN [found |-> FALSE, pos |-> pos, diverged |-> TRUE]
    ELSE IF t.hashes[pos] = EMPTY_HASH
    THEN [found |-> FALSE, pos |-> pos, diverged |-> FALSE]
    ELSE IF t.hashes[pos] = hash /\ t.keys[pos] = key
    THEN [found |-> TRUE, pos |-> pos, diverged |-> FALSE]
    ELSE hashmap_lookup_loop_no_distance_exit(t, hash, key,
                                              (pos + 1) % t.m_capacity,
                                              U32Inc(distance))

RECURSIVE hashmap_lookup_loop(_, _, _, _, _)
hashmap_lookup_loop(t, hash, key, pos, distance) ==
    IF ~U32LtSize(distance, 2 * t.m_capacity + 1)
    THEN [found |-> FALSE, pos |-> pos, diverged |-> TRUE]
    ELSE IF t.hashes[pos] = EMPTY_HASH
    THEN [found |-> FALSE, pos |-> pos, diverged |-> FALSE]
    ELSE IF U32Lt(_get_probe_distance(t, pos, t.hashes[pos]), distance)
    THEN [found |-> FALSE, pos |-> pos, diverged |-> FALSE]
    ELSE IF t.hashes[pos] = hash /\ t.keys[pos] = key
    THEN [found |-> TRUE, pos |-> pos, diverged |-> FALSE]
    ELSE hashmap_lookup_loop(t, hash, key, (pos + 1) % t.m_capacity,
                             U32Inc(distance))

hashmap_lookup_pos(t, hash, key) ==
    hashmap_lookup_loop(t, hash, key, U32Mod(hash, t.m_capacity), U32(0, 0))

(***************************************************************************)
(* hashmap :: insert.  The while (42) loop is unrolled; `seen` holds the   *)
(* loop states already visited, and coming back to one of them means the   *)
(* loop never returns (diverged).                                          *)
(***************************************************************************)
Place(t, pos, hash, key, value) ==
    [t EXCEPT !.hashes[pos] = hash, !.keys[pos] = key, !.values[pos] = value]

\* An insert loop that never swaps: the entry goes to the first EMPTY slot.
RECURSIVE hashmap_insert_loop_no_eviction(_, _, _, _, _, _, _)
hashmap_insert_loop_no_eviction(t, hash, key, value, pos, distance, seen) ==
    IF pos \in seen
    THEN [t |-> t, diverged |-> TRUE]
    ELSE IF t.hashes[pos] = EMPTY_HASH
    THEN [t |-> [Place(t, pos, hash, key, value)
                   EXCEPT !.m_num_elements = t.m_num_elements + 1],
          diverged |-> FALSE]
    ELSE hashmap_insert_loop_no_eviction(t, hash, key, value,
                                         (pos + 1) % t.m_capacity, distance,
                                         seen \cup {pos})

RECURSIVE hashmap_insert_loop(_, _, _, _, _, _, _)
hashmap_insert_loop(t, hash, key, value, pos, distance, seen) ==
    LET here == <<t.hashes, t.keys, t.values, hash, key, value, pos, distance>>
        exiting_distance == _get_probe_distance(t, pos, t.hashes[pos])
    IN
    IF here \in seen
    THEN [t |-> t, diverged |-> TRUE]
    ELSE IF t.hashes[pos] = EMPTY_HASH
    THEN [t |-> [Place(t, pos, hash, key, value)
                   EXCEPT !.m_num_elements = t.m_num_elements + 1],
          diverged |-> FALSE]
    ELSE IF U32Lt(exiting_distance, distance)
    THEN IF IsDeleted(t.hashes[pos])
         THEN [t |-> [Place(t, pos, hash, key, value)
                        EXCEPT !.m_num_elements = t.m_num_elements + 1],
               diverged |-> FALSE]
         ELSE hashmap_insert_loop(Place(t, pos, hash, key, value),
                                  t.hashes[pos], t.keys[pos], t.values[pos],
                                  (pos + 1) % t.m_capacity,
                                  U32Inc(exiting_distance),
                                  seen \cup {here})
    ELSE hashmap_insert_loop(t, hash, key, value,
                             (pos + 1) % t.m_capacity, U32Inc(distance),
                             seen \cup {here})

hashmap_insert(t, hash, key, value) ==
    hashmap_insert_loop(t, hash, key, value,
                        U32Mod(hash, t.m_capacity), U32(0, 0), {})

(***************************************************************************)
(* hashmap :: set, lookup, remove                                          *)
(***************************************************************************)
\* set without the `if (exists)` branch: every call inserts.
hashmap_set_always_inserts(t, hash, key, value) ==
    LET ins == hashmap_insert(t, _hash(hash), key, value)
    IN  [t |-> ins.t, diverged |-> ins.diverged, exists |-> FALSE]

hashmap_set(t, hash, key, value) ==
    LET h == _hash(hash)
        r == hashmap_lookup_pos(t, h, key)
    IN  IF r.diverged THEN [t |-> t, diverged |-> TRUE, exists |-> FALSE]
        ELSE IF r.found
        THEN [t |-> [t EXCEPT !.values[r.pos] = value],
              diverged |-> FALSE, exists |-> TRUE]
        ELSE LET ins == hashmap_insert(t, h, key, value)
             IN  [t |-> ins.t, diverged |-> ins.diverged, exists |-> FALSE]

hashmap_lookup(t, hash, key) ==
    LET r == hashmap_lookup_pos(t, _hash(hash), key)
    IN  [found |-> r.found /\ ~r.diverged,
         value |-> IF r.found THEN t.values[r.pos] ELSE Uninit,
         diverged |-> r.diverged]

\* get: `found` tells whether the lookup inside wrote `value`; values are
\* the values the call can return (any TValue when `value` stays unwritten).
hashmap_get(t, hash, key) ==
    LET r == hashmap_lookup(t, _hash(hash), key)
    IN  [found |-> r.found,
         values |-> IF r.found THEN {r.value} ELSE ValueDomain \cup {Uninit},
         diverged |-> r.diverged]

hashmap_remove_loses_position(t, hash, key) ==
    LET r == hashmap_lookup_pos(t, _hash(hash), key)
    IN  IF r.diverged THEN [t |-> t, diverged |-> TRUE, exists |-> FALSE]
        ELSE IF ~r.found
        THEN [t |-> t, diverged |-> FALSE, exists |-> FALSE]
        ELSE [t |-> [t EXCEPT !.hashes[r.pos] = U32(1, 0),
                              !.m_num_elements = t.m_num_elements - 1],
              diverged |-> FALSE, exists |-> TRUE]

hashmap_remove(t, hash, key) ==
    LET r == hashmap_lookup_pos(t, _hash(hash), key)
    IN  IF r.diverged THEN [t |-> t, diverged |-> TRUE, exists |-> FALSE]
        ELSE IF ~r.found
        THEN [t |-> t, diverged |-> FALSE, exists |-> FALSE]
        ELSE [t |-> [t EXCEPT !.hashes[r.pos] = SetDeleted(t.hashes[r.pos]),
                              !.m_num_elements = t.m_num_elements - 1],
              diverged |-> FALSE, exists |-> TRUE]

(***************************************************************************)
(* hashset :: _lookup_pos (the element lives in the values region)         *)
(***************************************************************************)
RECURSIVE hashset_lookup_loop(_, _, _, _, _)
hashset_lookup_loop(t, hash, value, pos, distance) ==
    IF ~U32LtSize(distance, t.m_capacity)
    THEN [found |-> FALSE, pos |-> pos]
    ELSE IF t.hashes[pos] = EMPTY_HASH
    THEN [found |-> FALSE, pos |-> pos]
    ELSE IF U32Lt(_get_probe_distance(t, pos, t.hashes[pos]), distance)
    THEN [found |-> FALSE, pos |-> pos]
    ELSE IF t.hashes[pos] = hash /\ t.values[pos] = value
    THEN [found |-> TRUE, pos |-> pos]
    ELSE hashset_lookup_loop(t, hash, value, (pos + 1) % t.m_capacity,
                             U32Inc(distance))

hashset_lookup_pos(t, hash, value) ==
    hashset_lookup_loop(t, hash, value, U32Mod(hash, t.m_capacity), U32(0, 0))

(***************************************************************************)
(* hashset :: _insert                                                      *)
(***************************************************************************)
PlaceElem(t, pos, hash, value) ==
    [t EXCEPT !.hashes[pos] = hash, !.values[pos] = value]

RECURSIVE hashset_insert_loop(_, _, _, _, _, _)
hashset_insert_loop(t, hash, value, pos, distance, seen) ==
    LET here == <<t.hashes, t.values, hash, value, pos, distance>>
        exiting_distance == _get_probe_distance(t, pos, t.hashes[pos])
    IN
    IF here \in seen
    THEN [t |-> t, diverged |-> TRUE]
    ELSE IF ~U32LtSize(distance, t.m_capacity)
    THEN [t |-> t, diverged |-> FALSE]
    ELSE IF t.hashes[pos] = EMPTY_HASH
    THEN [t |-> [PlaceElem(t, pos, hash, value)
                   EXCEPT !.m_num_elements = t.m_num_elements + 1],
          diverged |-> FALSE]
    ELSE IF U32Lt(exiting_distance, distance)
    THEN IF IsDeleted(t.hashes[pos])
         THEN [t |-> [PlaceElem(t, pos, hash, value)
                        EXCEPT !.m_num_elements = t.m_num_elements + 1],
               diverged |-> FALSE]
         ELSE hashset_insert_loop(PlaceElem(t, pos, hash, value),
                                  t.hashes[pos], t.values[pos],
                                  (pos + 1) % t.m_capacity,
                                  U32Inc(exiting_distance),
                                  seen \cup {here})
    ELSE hashset_insert_loop(t, hash, value,
                             (pos + 1) % t.m_capacity, U32Inc(distance),
                             seen \cup {here})

hashset__insert(t, hash, value) ==
    IF t.m_num_elements = t.m_capacity
    THEN [t |-> t, diverged |-> FALSE]
    ELSE hashset_insert_loop(t, hash, value,
                             U32Mod(hash, t.m_capacity), U32(0, 0), {})

(***************************************************************************)
(* hashset :: insert, has, remove                                          *)
(***************************************************************************)
\* insert without the `if (exists) return`: every call runs _insert.
hashset_insert_unchecked(t, hash, value) ==
    LET ins == hashset__insert(t, _hash(hash), value)
    IN  [t |-> ins.t, diverged |-> ins.diverged, exists |-> FALSE]

hashset_insert(t, hash, value) ==
    LET h == _hash(hash)
        r == hashset_lookup_pos(t, h, value)
    IN  IF r.found
        THEN [t |-> t, diverged |-> FALSE, exists |-> TRUE]
        ELSE LET ins == hashset__insert(t, h, value)
             IN  [t |-> ins.t, diverged |-> ins.diverged, exists |-> FALSE]

hashset_has(t, hash, value) == hashset_lookup_pos(t, _hash(hash), value).found

hashset_remove(t, hash, value) ==
    LET r == hashset_lookup_pos(t, _hash(hash), value)
    IN  IF ~r.found
        THEN [t |-> t, exists |-> FALSE]
        ELSE [t |-> [t EXCEPT !.hashes[r.pos] = SetDeleted(t.hashes[r.pos]),
                              !.m_num_elements = t.m_num_elements - 1],
              exists |-> TRUE]

(***************************************************************************)
(* hashmap / hashset :: iter_start, iter_next                              *)
(***************************************************************************)
iter_start == [offset |-> 0]

\* The first slot at or after `i` that the for loop does not skip, or
\* m_capacity when the loop runs off the end.
RECURSIVE iter_scan(_, _)
iter_scan(t, i) ==
    IF ~(i < t.m_capacity) THEN t.m_capacity
    ELSE IF t.hashes[i] = EMPTY_HASH THEN iter_scan(t, i + 1)
    ELSE IF IsDeleted(t.hashes[i]) THEN iter_scan(t, i + 1)
    ELSE i

iter_next_parks_at_capacity(t, iter) ==
    LET i == iter_scan(t, iter.offset)
    IN  IF i < t.m_capacity
        THEN [ok |-> TRUE, iter |-> [offset |-> i + 1],
              key |-> t.keys[i], value |-> t.values[i]]
        ELSE [ok |-> FALSE, iter |-> [offset |-> t.m_capacity],
              key |-> Uninit, value |-> Uninit]

iter_next(t, iter) ==
    LET i == iter_scan(t, iter.offset)
    IN  IF i < t.m_capacity
        THEN [ok |-> TRUE, iter |-> [offset |-> i + 1],
              key |-> t.keys[i], value |-> t.values[i]]
        ELSE [ok |-> FALSE, iter |-> iter, key |-> Uninit, value |-> Uninit]

\* while (iter_next(iter, key, value)) { ... }: the entries the loop of the
\* tests prints, in order, each with the slot it was read from (the offset
\* iter_next left in the iterator, less one).
RECURSIVE iterate_from(_, _)
iterate_from(t, iter) ==
    LET r == iter_next(t, iter)
    IN  IF r.ok
        THEN <<[key |-> r.key, value |-> r.value, slot |-> r.iter.offset - 1]>>
                 \o iterate_from(t, r.iter)
        ELSE <<>>

iterate(t) == iterate_from(t, iter_start)

(***************************************************************************)
(* hashmap :: copy, hashset :: copy                                        *)
(***************************************************************************)
RECURSIVE hashmap_copy_loop_keeps_deleted(_, _, _)
hashmap_copy_loop_keeps_deleted(t, i, new) ==
    IF ~(i < t.m_capacity) \/ new.diverged THEN new
    ELSE IF t.hashes[i] = EMPTY_HASH
    THEN hashmap_copy_loop_keeps_deleted(t, i + 1, new)
    ELSE hashmap_copy_loop_keeps_deleted(t, i + 1,
             hashmap_insert(new.t, t.hashes[i], t.keys[i], t.values[i]))

RECURSIVE hashmap_copy_loop(_, _, _)
hashmap_copy_loop(t, i, new) ==
    IF ~(i < t.m_capacity) \/ new.diverged THEN new
    ELSE IF t.hashes[i] = EMPTY_HASH THEN hashmap_copy_loop(t, i + 1, new)
    ELSE IF IsDeleted(t.hashes[i]) THEN hashmap_copy_loop(t, i + 1, new)
    ELSE hashmap_copy_loop(t, i + 1,
             hashmap_insert(new.t, t.hashes[i], t.keys[i], t.values[i]))

hashmap_copy(t, buffer_size) ==
    hashmap_copy_loop(t, 0, [t |-> hashmap_create(buffer_size),
                             diverged |-> FALSE])

RECURSIVE hashset_copy_loop(_, _, _)
hashset_copy_loop(t, i, new) ==
    IF ~(i < t.m_capacity) \/ new.diverged THEN new
    ELSE IF t.hashes[i] = EMPTY_HASH THEN hashset_copy_loop(t, i + 1, new)
    ELSE IF IsDeleted(t.hashes[i]) THEN hashset_copy_loop(t, i + 1, new)
    ELSE LET ins == hashset_insert(new.t, t.hashes[i], t.values[i])
         IN  hashset_copy_loop(t, i + 1,
                               [t |-> ins.t, diverged |-> ins.diverged])

hashset_copy(t, buffer_size) ==
    hashset_copy_loop(t, 0, [t |-> hashset_create(buffer_size),
                             diverged |-> FALSE])

\* The buffers of the caller: the one the table was created in and the one
\* handed to copy.
SrcBuffer == "buffer"
DstBuffer == "new_buffer"

\* A copy that hands back this table itself, buffer included.
hashmap_copy_shares_buffer(this, buffer_size, buffer) ==
    [t |-> this.t, m_buffer |-> this.m_buffer, diverged |-> FALSE]

\* copy as a call on the table object `this` ([t, m_buffer]): the new object
\* holds the pointer create stored, `map.m_buffer = (uint8_t *) buffer`.
hashmap_copy_object(this, buffer_size, buffer) ==
    LET new_hashmap == hashmap_copy(this.t, buffer_size)
    IN  [t |-> new_hashmap.t, m_buffer |-> buffer,
         diverged |-> new_hashmap.diverged]

hashset_copy_object(this, buffer_size, buffer) ==
    LET new_hashset == hashset_copy(this.t, buffer_size)
    IN  [t |-> new_hashset.t, m_buffer |-> buffer,
         diverged |-> new_hashset.diverged]

\* What the table t, whose m_buffer is `buffer`, holds after a call left the
\* table `written` in the buffer `written_buffer`: the hashes, keys and
\* values of a table are the bytes of its buffer.
WriteThrough(t, buffer, written, written_buffer) ==
    IF written_buffer = buffer
    THEN [t EXCEPT !.hashes = written.hashes,
                   !.keys = written.keys,
                   !.values = written.values]
    ELSE t

(***************************************************************************)
(* memorypool<Velocity> (IndexType uint32_t), as the example uses it.  A   *)
(* pointer to m_buffer[i].value is the index i; nullptr is -1.  A slot of   *)
(* m_buffer is a union: the model keeps the 32 bits that `next` reads,      *)
(* whoever wrote them.                                                      *)
(***************************************************************************)
SizeofVelocity == 8
SizeofIndexType == 4

nullptr == -1

CF_MEMORYPOOL_BUFFER_SIZE_CUSTOM_IDX(n) ==
    (IF SizeofVelocity > SizeofIndexType THEN SizeofVelocity
                                         ELSE SizeofIndexType) * n

CF_MEMORYPOOL_BUFFER_SIZE(n) == CF_MEMORYPOOL_BUFFER_SIZE_CUSTOM_IDX(n)

\* sizeof(element_t), the union of a Velocity and an index
SizeofElement_t ==
    IF SizeofVelocity > SizeofIndexType THEN SizeofVelocity
                                        ELSE SizeofIndexType

\* Bit patterns a caller leaves in the first 32 bits of an allocated
\* Velocity: two that read as indices of small pools and one that is the
\* index of no slot.
UserData == {0, 2, 7}

\* create with `m_buffer[i].next = i + 1`.
memorypool_create_no_wrap(buffer_size) ==
    LET capacity == buffer_size \div SizeofElement_t
    IN  [m_num_elements |-> 0,
         m_capacity     |-> capacity,
         next_free      |-> 0,
         m_buffer       |-> [i \in 0 .. capacity - 1 |-> i + 1]]

memorypool_create(buffer_size) ==
    LET capacity == buffer_size \div SizeofElement_t
    IN  [m_num_elements |-> 0,
         m_capacity     |-> capacity,
         next_free      |-> 0,
         m_buffer       |-> [i \in 0 .. capacity - 1 |-> (i + 1) % capacity]]

\* m_buffer[i] is inside the buffer.
InBuffer(p, i) == i \in 0 .. p.m_capacity - 1

\* allocate without the `m_num_elements == m_capacity` check.
memorypool_allocate_unchecked(p) ==
    IF ~InBuffer(p, p.next_free)
    THEN [p |-> p, ret |-> nullptr, ub |-> TRUE]
    ELSE LET new_next_free == p.m_buffer[p.next_free]
             old_next_free == p.next_free
         IN  IF ~InBuffer(p, new_next_free)
             THEN [p |-> p, ret |-> nullptr, ub |-> TRUE]
             ELSE [p |-> [p EXCEPT
                            !.m_buffer[old_next_free] =
                                p.m_buffer[new_next_free],
                            !.m_num_elements = p.m_num_elements + 1,
                            !.next_free = new_next_free],
                   ret |-> old_next_free,
                   ub |-> FALSE]

\* allocate that stores the link in the new head of the list, not in the
\* slot it returns.
memorypool_allocate_relinks_head(p) ==
    IF p.m_num_elements = p.m_capacity
    THEN [p |-> p, ret |-> nullptr, ub |-> FALSE]
    ELSE IF ~InBuffer(p, p.next_free)
    THEN [p |-> p, ret |-> nullptr, ub |-> TRUE]
    ELSE LET new_next_free == p.m_buffer[p.next_free]
             old_next_free == p.next_free
         IN  IF ~InBuffer(p, new_next_free)
             THEN [p |-> p, ret |-> nullptr, ub |-> TRUE]
             ELSE [p |-> [p EXCEPT
                            !.m_buffer[new_next_free] = old_next_free,
                            !.m_num_elements = p.m_num_elements + 1,
                            !.next_free = new_next_free],
                   ret |-> old_next_free,
                   ub |-> FALSE]

\* allocate: the pool afterwards, the pointer returned, and whether the call
\* read or wrote m_buffer outside the buffer (undefined behaviour).
memorypool_allocate(p) ==
    IF p.m_num_elements = p.m_capacity
    THEN [p |-> p, ret |-> nullptr, ub |-> FALSE]
    ELSE IF ~InBuffer(p, p.next_free)
    THEN [p |-> p, ret |-> nullptr, ub |-> TRUE]
    ELSE LET new_next_free == p.m_buffer[p.next_free]
             old_next_free == p.next_free
         IN  IF ~InBuffer(p, new_next_free)
             THEN [p |-> p, ret |-> nullptr, ub |-> TRUE]
             ELSE [p |-> [p EXCEPT
                            !.m_buffer[old_next_free] =
                                p.m_buffer[new_next_free],
                            !.m_num_elements = p.m_num_elements + 1,
                            !.next_free = new_next_free],
                   ret |-> old_next_free,
                   ub |-> FALSE]

\* free without `m_buffer[index].next = old_next_free`.
memorypool_free_no_link(p, index) ==
    [p EXCEPT !.next_free = index,
              !.m_num_elements = p.m_num_elements - 1]

\* free without `m_num_elements--`.
memorypool_free_no_decrement(p, index) ==
    [p EXCEPT !.next_free = index,
              !.m_buffer[index] = p.next_free]

\* free with `m_buffer[index].next = index`.
memorypool_free_links_self(p, index) ==
    [p EXCEPT !.next_free = index,
              !.m_num_elements = p.m_num_elements - 1,
              !.m_buffer[index] = index]

\* free(element), element the pointer to slot `index`.
memorypool_free(p, index) ==
    [p EXCEPT !.next_free = index,
              !.m_num_elements = p.m_num_elements - 1,
              !.m_buffer[index] = p.next_free]

(***************************************************************************)
(* cf_hashmap (cf_hashmap.h): open addressing with local probing, with     *)
(* uint32_t keys and uint16_t values.  The two flag bits of a slot are     *)
(* flags[pos] = [filled, deleted].  hash + i is a size_t sum and does not  *)
(* wrap.  The flag-bitmap hashmap of part_002 (644-916) has the same       *)
(* loops.                                                                  *)
(***************************************************************************)
\* The calls of the caller: (hash, key).
LegacyPairs == {<<13, 13>>, <<42, 42>>, <<13, 21>>}

_CF_HASHMAP_DECENT_BUFFER_SIZE(capacity) ==
    (SizeofHash + SizeofKey + SizeofValue) * capacity + (capacity \div 4) + 1

\* (int) (1.5 * num_elements)
CF_HASHMAP_DECENT_BUFFER_SIZE(num_elements) ==
    _CF_HASHMAP_DECENT_BUFFER_SIZE((3 * num_elements) \div 2)

\* capacity = (size_t) ((float) (buffer_size - 1) / (stride + 1/4.0))
cf_hashmap_new(buffer_size) ==
    LET capacity == (4 * (buffer_size - 1))
                        \div (4 * (SizeofKey + SizeofValue + SizeofHash) + 1)
    IN  [num_elements |-> 0,
         capacity     |-> capacity,
         flags        |-> [i \in 0 .. capacity - 1 |->
                              [filled |-> FALSE, deleted |-> FALSE]],
         hashes       |-> [i \in 0 .. capacity - 1 |-> 0],
         keys         |-> [i \in 0 .. capacity - 1 |-> Uninit],
         values       |-> [i \in 0 .. capacity - 1 |-> Uninit]]

RECURSIVE cf_hashmap_set_loop(_, _, _, _, _)
cf_hashmap_set_loop(map, hash, key, value, i) ==
    IF ~(i < map.capacity) THEN map
    ELSE LET pos == (hash + i) % map.capacity
             is_filled == map.flags[pos].filled
         IN  IF is_filled
             THEN IF map.hashes[pos] = hash /\ map.keys[pos] = key
                  THEN [map EXCEPT !.values[pos] = value]
                  ELSE cf_hashmap_set_loop(map, hash, key, value, i + 1)
             ELSE [map EXCEPT !.hashes[pos] = hash,
                              !.keys[pos] = key,
                              !.values[pos] = value,
                              !.flags[pos] = [filled |-> TRUE,
                                              deleted |-> FALSE],
                              !.num_elements = map.num_elements + 1]

cf_hashmap_set(map, hash, key, value) ==
    cf_hashmap_set_loop(map, hash, key, value, 0)

RECURSIVE cf_hashmap_lookup_loop(_, _, _, _)
cf_hashmap_lookup_loop(map, hash, key, i) ==
    IF ~(i < map.capacity) THEN [found |-> FALSE, value |-> Uninit]
    ELSE LET pos == (hash + i) % map.capacity
             is_filled == map.flags[pos].filled
             was_deleted == map.flags[pos].deleted
         IN  IF is_filled
             THEN IF map.hashes[pos] = hash /\ map.keys[pos] = key
                  THEN [found |-> TRUE, value |-> map.values[pos]]
                  ELSE cf_hashmap_lookup_loop(map, hash, key, i + 1)
             ELSE IF was_deleted
             THEN cf_hashmap_lookup_loop(map, hash, key, i + 1)
             ELSE [found |-> FALSE, value |-> Uninit]

cf_hashmap_lookup(map, hash, key) == cf_hashmap_lookup_loop(map, hash, key, 0)

RECURSIVE cf_hashmap_remove_loop(_, _, _, _)
cf_hashmap_remove_loop(map, hash, key, i) ==
    IF ~(i < map.capacity) THEN map
    ELSE LET pos == (hash + i) % map.capacity
             is_filled == map.flags[pos].filled
             was_deleted == map.flags[pos].deleted
         IN  IF is_filled
             THEN IF map.hashes[pos] = hash /\ map.keys[pos] = key
                  THEN [map EXCEPT !.flags[pos] = [filled |-> FALSE,
                                                   deleted |-> TRUE],
                                   !.num_elements = map.num_elements - 1]
                  ELSE cf_hashmap_remove_loop(map, hash, key, i + 1)
             ELSE IF was_deleted
             THEN cf_hashmap_remove_loop(map, hash, key, i + 1)
             ELSE map

cf_hashmap_remove(map, hash, key) == cf_hashmap_remove_loop(map, hash, key, 0)

(***************************************************************************)
(* State.                                                                  *)
(*   kind   "map" (hashmap<uint32_t, uint16_t>) or "set" (hashset<uint32_t>)*)
(*   table  the table object and the contents of its buffer                *)
(*   clean  history: every set/insert so far was issued while              *)
(*          num_elements < capacity, and no caller hash so far was         *)
(*          normalised to 0                                                *)
(*   model  history, kept while the history is clean: the entries the      *)
(*          caller has set/inserted and not removed since, as              *)
(*          [hash, key, value] with the hash as _hash stores it (for the   *)
(*          set, key and value are both the element)                       *)
(*   kept   history, kept while the history is clean: as model, but an     *)
(*          entry leaves it only when remove found its entry               *)
(*   hung   a call entered a loop that never returns                       *)
(*   last   the last mutating call: its name and whether _lookup_pos found *)
(*          its entry                                                      *)
(*   copied the table object copy returned ([t, m_buffer], made once copy   *)
(*          has returned) with the contents of its buffer                  *)
(*   after  the number of set/insert/remove calls since copy returned      *)
(*   clast  the last call since copy: the table it was made on, its name   *)
(*          and whether _lookup_pos found its entry                        *)
(*   twin   kind "twin": a hashmap and a hashset of equal capacity that    *)
(*          receive the same calls (map key = set value), and whether one  *)
(*          of the calls never returned                                    *)
(*   legacy kind "legacy": the cf_hashmap object and the contents of its   *)
(*          buffer                                                         *)
(* lookup, has, iter_next and copy are const methods that return a         *)
(* function of the table.                                                  *)
(*                                                                         *)
(* kind "pool" is a memorypool<Velocity>:                                  *)
(*   pool   the pool object and the contents of its buffer                 *)
(*   held   history: the pointers allocate returned that the caller has    *)
(*          not freed                                                      *)
(*   ub     a call touched m_buffer outside the buffer                     *)
(*   plast  the last call on the pool and the pointer it returned or took  *)
(* A run is about one object: the variables of the others keep the value   *)
(* Init gives them.                                                        *)
(***************************************************************************)
PoolCall(op, ptr) == [op |-> op, ptr |-> ptr]

Call(op, exists) == [op |-> op, exists |-> exists]

Twin(map, set, diverged) == [map |-> map, set |-> set, diverged |-> diverged]

CopyCall(on, call) == [on |-> on, op |-> call.op, exists |-> call.exists]

\* The table object of the caller, and the variable `copied` before copy.
This == [t |-> table, m_buffer |-> SrcBuffer]
NoCopy == [made |-> FALSE, t |-> CreateTable(0), m_buffer |-> DstBuffer]

Entry(hash, key, value) == [hash |-> hash, key |-> key, value |-> value]

ModelPut(m, hash, key, value) ==
    {e \in m : ~(e.hash = hash /\ e.key = key)} \cup {Entry(hash, key, value)}

ModelDel(m, hash, key) == {e \in m : ~(e.hash = hash /\ e.key = key)}

Init ==
    /\ kind \in {"map", "set", "pool", "twin", "legacy"}
    /\ \E n \in 1 .. MaxCapacity :
          table = IF kind = "map"
                  THEN hashmap_create(CF_HASHMAP_GET_BUFFER_SIZE(n))
                  ELSE IF kind = "set"
                  THEN hashset_create(CF_HASHSET_GET_BUFFER_SIZE(n))
                  ELSE CreateTable(0)
    /\ model = {}
    /\ kept = {}
    /\ clean = TRUE
    /\ hung = FALSE
    /\ last = Call("create", FALSE)
    /\ copied = NoCopy
    /\ after = 0
    /\ \E n \in 1 .. MaxCapacity :
          twin = IF kind = "twin"
                 THEN Twin(hashmap_create(CF_HASHMAP_GET_BUFFER_SIZE(n)),
                           hashset_create(CF_HASHSET_GET_BUFFER_SIZE(n)),
                           FALSE)
                 ELSE Twin(CreateTable(0), CreateTable(0), FALSE)
    /\ clast = CopyCall("source", Call("create", FALSE))
    /\ \E n \in 1 .. MaxLegacyElements :
          legacy = IF kind = "legacy"
                   THEN cf_hashmap_new(CF_HASHMAP_DECENT_BUFFER_SIZE(n))
                   ELSE cf_hashmap_new(1)
    /\ \E n \in 0 .. MaxPoolCapacity :
          pool = IF kind = "pool"
                 THEN memorypool_create(CF_MEMORYPOOL_BUFFER_SIZE(n))
                 ELSE memorypool_create(0)
    /\ held = {}
    /\ ub = FALSE
    /\ plast = PoolCall("create", nullptr)

\* The caller issues set/insert only while the count is below this.
MayGrow == table.m_num_elements < table.m_capacity + MaxOverfill

\* The caller issues set/insert/remove on the table or its copy.
MayCall == ~copied.made \/ after < MaxAfterCopy

\* Whether the history is still clean after a call with this caller hash;
\* growing: the call is a set/insert.
CleanAfter(hash, growing) ==
    /\ clean
    /\ _hash(hash) # EMPTY_HASH
    /\ growing => table.m_num_elements < table.m_capacity

\* A mutating call that never returns.
Hang(hash, growing) ==
    /\ hung' = TRUE
    /\ clean' = CleanAfter(hash, growing)
    /\ model' = IF CleanAfter(hash, growing) THEN model ELSE {}
    /\ kept' = IF CleanAfter(hash, growing) THEN kept ELSE {}
    /\ UNCHANGED <<kind, table, last>>
    /\ UNCHANGED copyvars
    /\ UNCHANGED <<twin, legacy, poolvars>>

\* A const call that never returns.
HangConst ==
    /\ hung' = TRUE
    /\ UNCHANGED <<kind, table, model, kept, clean, last>>
    /\ UNCHANGED copyvars
    /\ UNCHANGED <<twin, legacy, poolvars>>

\* A mutating call that returns, leaving the table t and the histories m, k.
Returned(t, m, k, hash, growing, call) ==
    /\ table' = t
    /\ clean' = CleanAfter(hash, growing)
    /\ model' = IF CleanAfter(hash, growing) THEN m ELSE {}
    /\ kept' = IF CleanAfter(hash, growing) THEN k ELSE {}
    /\ last' = call
    /\ copied' = [copied EXCEPT
                     !.t = WriteThrough(@, copied.m_buffer, t, SrcBuffer)]
    /\ after' = IF copied.made THEN after + 1 ELSE after
    /\ clast' = IF copied.made THEN CopyCall("source", call) ELSE clast
    /\ UNCHANGED <<kind, hung>>
    /\ UNCHANGED <<twin, legacy, poolvars>>

\* copy returned the table object new.
Copied(new) ==
    /\ copied' = [made |-> TRUE, t |-> new.t, m_buffer |-> new.m_buffer]
    /\ table' = WriteThrough(table, SrcBuffer, new.t, new.m_buffer)
    /\ after' = 0
    /\ clast' = CopyCall("source", Call("copy", FALSE))
    /\ UNCHANGED <<kind, model, kept, clean, hung, last>>
    /\ UNCHANGED <<twin, legacy, poolvars>>

\* A mutating call on the copy that returns, leaving the table t.
CopyReturned(t, call) ==
    /\ copied' = [copied EXCEPT !.t = t]
    /\ table' = WriteThrough(table, SrcBuffer, t, copied.m_buffer)
    /\ after' = after + 1
    /\ clast' = CopyCall("copy", call)
    /\ UNCHANGED <<kind, model, kept, clean, hung, last>>
    /\ UNCHANGED <<twin, legacy, poolvars>>

MapSet(hash, key, value) ==
    /\ kind = "map" /\ ~hung /\ MayGrow /\ MayCall
    /\ LET r == hashmap_set(table, hash, key, value)
       IN  IF r.diverged THEN Hang(hash, TRUE)
           ELSE Returned(r.t, ModelPut(model, _hash(hash), key, value),
                         ModelPut(kept, _hash(hash), key, value),
                         hash, TRUE, Call("set", r.exists))

MapRemove(hash, key) ==
    /\ kind = "map" /\ ~hung /\ MayCall
    /\ LET r == hashmap_remove(table, hash, key)
       IN  IF r.diverged THEN Hang(hash, FALSE)
           ELSE Returned(r.t, ModelDel(model, _hash(hash), key),
                         IF r.exists THEN ModelDel(kept, _hash(hash), key)
                                     ELSE kept,
                         hash, FALSE, Call("remove", r.exists))

MapLookup(hash, key) ==
    /\ kind = "map" /\ ~hung
    /\ IF hashmap_lookup(table, hash, key).diverged THEN HangConst
       ELSE UNCHANGED vars

MapGet(hash, key) ==
    /\ kind = "map" /\ ~hung
    /\ IF hashmap_get(table, hash, key).diverged THEN HangConst
       ELSE UNCHANGED vars

MapIterate ==
    /\ kind = "map" /\ ~hung
    /\ Len(iterate(table)) <= table.m_capacity
    /\ UNCHANGED vars

MapCopy(n) ==
    /\ kind = "map" /\ ~hung /\ table.m_num_elements <= n
    /\ ~copied.made
    /\ LET new_map == hashmap_copy_object(This, CF_HASHMAP_GET_BUFFER_SIZE(n),
                                          DstBuffer)
       IN  IF new_map.diverged THEN HangConst ELSE Copied(new_map)

\* set and remove on the table copy returned.
CopyMapSet(hash, key, value) ==
    /\ kind = "map" /\ ~hung /\ copied.made /\ MayCall
    /\ copied.t.m_num_elements < copied.t.m_capacity + MaxOverfill
    /\ LET r == hashmap_set(copied.t, hash, key, value)
       IN  IF r.diverged THEN HangConst
           ELSE CopyReturned(r.t, Call("set", r.exists))

CopyMapRemove(hash, key) ==
    /\ kind = "map" /\ ~hung /\ copied.made /\ MayCall
    /\ LET r == hashmap_remove(copied.t, hash, key)
       IN  IF r.diverged THEN HangConst
           ELSE CopyReturned(r.t, Call("remove", r.exists))

SetInsert(hash, value) ==
    /\ kind = "set" /\ ~hung /\ MayGrow /\ MayCall
    /\ LET r == hashset_insert(table, hash, value)
       IN  IF r.diverged THEN Hang(hash, TRUE)
           ELSE Returned(r.t, ModelPut(model, _hash(hash), value, value),
                         ModelPut(kept, _hash(hash), value, value),
                         hash, TRUE, Call("insert", r.exists))

SetRemove(hash, value) ==
    /\ kind = "set" /\ ~hung /\ MayCall
    /\ LET r == hashset_remove(table, hash, value)
       IN  Returned(r.t, ModelDel(model, _hash(hash), value),
                    IF r.exists THEN ModelDel(kept, _hash(hash), value)
                                ELSE kept,
                    hash, FALSE, Call("remove", r.exists))

SetHas(hash, value) ==
    /\ kind = "set" /\ ~hung
    /\ hashset_has(table, hash, value) \in BOOLEAN
    /\ UNCHANGED vars

SetIterate ==
    /\ kind = "set" /\ ~hung
    /\ Len(iterate(table)) <= table.m_capacity
    /\ UNCHANGED vars

SetCopy(n) ==
    /\ kind = "set" /\ ~hung /\ table.m_num_elements <= n
    /\ ~copied.made
    /\ LET new_set == hashset_copy_object(This, CF_HASHSET_GET_BUFFER_SIZE(n),
                                          DstBuffer)
       IN  IF new_set.diverged THEN HangConst ELSE Copied(new_set)

\* insert and remove on the table copy returned.
CopySetInsert(hash, value) ==
    /\ kind = "set" /\ ~hung /\ copied.made /\ MayCall
    /\ copied.t.m_num_elements < copied.t.m_capacity + MaxOverfill
    /\ LET r == hashset_insert(copied.t, hash, value)
       IN  IF r.diverged THEN HangConst
           ELSE CopyReturned(r.t, Call("insert", r.exists))

CopySetRemove(hash, value) ==
    /\ kind = "set" /\ ~hung /\ copied.made /\ MayCall
    /\ LET r == hashset_remove(copied.t, hash, value)
       IN  CopyReturned(r.t, Call("remove", r.exists))

\* The calls the twin tables receive: the caller pairs whose hash _hash()
\* does not map to EMPTY_HASH, and one whose hash is a multiple of the
\* capacity 3.
TwinPairs ==
    {p \in CallerPairs : _hash(p[1]) # EMPTY_HASH} \cup {<<U32(0, 3), 13>>}

\* The same insert / remove on the hashmap and on the hashset.
TwinInsert(hash, value) ==
    /\ kind = "twin" /\ ~twin.diverged
    /\ twin.map.m_num_elements < twin.map.m_capacity
    /\ twin.set.m_num_elements < twin.set.m_capacity
    /\ LET m == hashmap_set(twin.map, hash, value, 37)
           s == hashset_insert(twin.set, hash, value)
       IN  twin' = Twin(m.t, s.t, m.diverged \/ s.diverged)
    /\ UNCHANGED <<tablevars, copyvars, legacy, poolvars>>

TwinRemove(hash, value) ==
    /\ kind = "twin" /\ ~twin.diverged
    /\ LET m == hashmap_remove(twin.map, hash, value)
           s == hashset_remove(twin.set, hash, value)
       IN  twin' = Twin(m.t, s.t, m.diverged)
    /\ UNCHANGED <<tablevars, copyvars, legacy, poolvars>>

LegacySet(hash, key, value) ==
    /\ kind = "legacy"
    /\ legacy' = cf_hashmap_set(legacy, hash, key, value)
    /\ UNCHANGED <<tablevars, copyvars, twin, poolvars>>

LegacyRemove(hash, key) ==
    /\ kind = "legacy"
    /\ legacy' = cf_hashmap_remove(legacy, hash, key)
    /\ UNCHANGED <<tablevars, copyvars, twin, poolvars>>

LegacyLookup(hash, key) ==
    /\ kind = "legacy"
    /\ cf_hashmap_lookup(legacy, hash, key).found \in BOOLEAN
    /\ UNCHANGED vars

PoolAllocate ==
    /\ kind = "pool" /\ ~ub
    /\ LET r == memorypool_allocate(pool)
       IN  /\ pool' = r.p
           /\ ub' = r.ub
           /\ held' = IF r.ret = nullptr THEN held ELSE held \cup {r.ret}
           /\ plast' = PoolCall("allocate", r.ret)
    /\ UNCHANGED tablevars
    /\ UNCHANGED <<copyvars, twin, legacy>>

\* free of a pointer allocate returned and the caller has not freed since.
PoolFree(ptr) ==
    /\ kind = "pool" /\ ~ub
    /\ ptr \in held
    /\ pool' = memorypool_free(pool, ptr)
    /\ held' = held \ {ptr}
    /\ plast' = PoolCall("free", ptr)
    /\ UNCHANGED <<ub>>
    /\ UNCHANGED tablevars
    /\ UNCHANGED <<copyvars, twin, legacy>>

\* The caller stores a Velocity in an element it holds.
PoolWrite(ptr, data) ==
    /\ kind = "pool" /\ ~ub
    /\ ptr \in held
    /\ pool' = [pool EXCEPT !.m_buffer[ptr] = data]
    /\ plast' = PoolCall("write", ptr)
    /\ UNCHANGED <<held, ub>>
    /\ UNCHANGED tablevars
    /\ UNCHANGED <<copyvars, twin, legacy>>

Next ==
    \/ \E c \in CallerSets : MapSet(c[1], c[2], c[3])
    \/ \E p \in CallerPairs : MapRemove(p[1], p[2])
    \/ \E p \in CallerPairs : MapLookup(p[1], p[2])
    \/ \E p \in CallerPairs : MapGet(p[1], p[2])
    \/ MapIterate
    \/ \E n \in 1 .. MaxCapacity : MapCopy(n)
    \/ \E c \in CallerSets : CopyMapSet(c[1], c[2], c[3])
    \/ \E p \in CallerPairs : CopyMapRemove(p[1], p[2])
    \/ \E p \in CallerPairs : SetInsert(p[1], p[2])
    \/ \E p \in CallerPairs : SetRemove(p[1], p[2])
    \/ \E p \in CallerPairs : SetHas(p[1], p[2])
    \/ SetIterate
    \/ \E n \in 1 .. MaxCapacity : SetCopy(n)
    \/ \E p \in CallerPairs : CopySetInsert(p[1], p[2])
    \/ \E p \in CallerPairs : CopySetRemove(p[1], p[2])
    \/ \E p \in TwinPairs : TwinInsert(p[1], p[2])
    \/ \E p \in TwinPairs : TwinRemove(p[1], p[2])
    \/ \E p \in LegacyPairs, v \in ValueDomain : LegacySet(p[1], p[2], v)
    \/ \E p \in LegacyPairs : LegacyRemove(p[1], p[2])
    \/ \E p \in LegacyPairs : LegacyLookup(p[1], p[2])
    \/ PoolAllocate
    \/ \E ptr \in 0 .. MaxPoolCapacity - 1 : PoolFree(ptr)
    \/ \E ptr \in 0 .. MaxPoolCapacity - 1, data \in UserData :
          PoolWrite(ptr, data)

Spec == Init /\ [][Next]_vars

(***************************************************************************)
(* Vocabulary of the properties.                                           *)
(***************************************************************************)
Slots(t) == 0 .. t.m_capacity - 1

\* LIVE: hash non-zero and DELETED bit clear.
IsLive(t, i) == t.hashes[i] # EMPTY_HASH /\ ~IsDeleted(t.hashes[i])

\* Tombstone: DELETED bit set.
IsTombstone(t, i) == IsDeleted(t.hashes[i])

\* A LIVE slot below the ideal position of its hash: the entry wrapped past
\* the end of the table.
IsWrapped(t, i) ==
    IsLive(t, i) /\ i < U32Mod(ClearDeleted(t.hashes[i]), t.m_capacity)

\* A hash a slot can hold for a LIVE entry: not the EMPTY sentinel, DELETED
\* bit clear.
IsStorable(hash) == hash # EMPTY_HASH /\ ~IsDeleted(hash)

LiveCount(t) == Cardinality({i \in Slots(t) : IsLive(t, i)})

\* What lookup (map) or has (set) reports for a caller pair.
Find(t, p) ==
    IF kind = "map"
    THEN [found |-> hashmap_lookup(t, p[1], p[2]).found,
          value |-> hashmap_lookup(t, p[1], p[2]).value]
    ELSE [found |-> hashset_has(t, p[1], p[2]),
          value |-> IF hashset_has(t, p[1], p[2]) THEN p[2] ELSE Uninit]

\* Two caller pairs name the same entry of the table.
SameEntry(p, q) == _hash(p[1]) = _hash(q[1]) /\ p[2] = q[2]

\* remove (of either table) for the pair p, as an action.
Remove(p) == MapRemove(p[1], p[2]) \/ SetRemove(p[1], p[2])

\* The table remove (of either table) leaves when called on t for the pair p.
AfterRemove(t, p) ==
    IF kind = "map" THEN hashmap_remove(t, p[1], p[2]).t
                    ELSE hashset_remove(t, p[1], p[2]).t

\* copy (of either table) into a buffer sized for n elements.
Copy(t, n) ==
    IF kind = "map" THEN hashmap_copy(t, CF_HASHMAP_GET_BUFFER_SIZE(n))
                    ELSE hashset_copy(t, CF_HASHSET_GET_BUFFER_SIZE(n))

\* The entries a full iteration yields, each with the hash of its slot.
Yielded(t) ==
    [i \in 1 .. Len(iterate(t)) |->
        LET y == iterate(t)[i]
        IN  Entry(t.hashes[y.slot],
                  IF kind = "map" THEN y.key ELSE y.value, y.value)]

(***************************************************************************)
(* C1  Round trip of the robin-hood hashmap.  In a history where every set *)
(* was issued while num_elements < capacity and no caller hash was          *)
(* normalised to 0, lookup(h,k) returns true exactly for the pairs that     *)
(* were set and not removed since, each with the value of its most recent   *)
(* set.                                                                     *)
(***************************************************************************)
C1_RoundTrip ==
    (kind = "map" /\ clean /\ ~hung) =>
        \A p \in CallerPairs :
            LET r == hashmap_lookup(table, p[1], p[2])
                m == {e \in model : e.hash = _hash(p[1]) /\ e.key = p[2]}
            IN  /\ ~r.diverged
                /\ r.found <=> m # {}
                /\ \A e \in m : r.value = e.value

(***************************************************************************)
(* C2  hashset insert(h,v) issued in any reachable state with               *)
(* num_elements < capacity returns, makes has(h,v) true, and raises         *)
(* num_elements by exactly 1 if v was absent.                               *)
(***************************************************************************)
C2_InsertThenHas ==
    [][\A p \in CallerPairs :
          (kind = "set" /\ table.m_num_elements < table.m_capacity
             /\ SetInsert(p[1], p[2])) =>
              /\ ~hung'
              /\ hashset_has(table', p[1], p[2])
              /\ ~hashset_has(table, p[1], p[2]) =>
                    table'.m_num_elements = table.m_num_elements + 1]_vars

(***************************************************************************)
(* C3  remove of a present entry (map and set), after any sequence of       *)
(* operations: the entry is no longer found, num_elements drops by exactly  *)
(* 1, and every other entry that was found before is still found with the   *)
(* same value.                                                              *)
(***************************************************************************)
C3_RemovePresent ==
    [][\A p \in CallerPairs :
          (kind \in {"map", "set"} /\ Find(table, p).found /\ Remove(p)) =>
              /\ ~hung'
              /\ ~Find(table', p).found
              /\ table'.m_num_elements = table.m_num_elements - 1
              /\ \A q \in CallerPairs :
                    (~SameEntry(p, q) /\ Find(table, q).found) =>
                        Find(table', q) = Find(table, q)]_vars

(***************************************************************************)
(* C4  Count invariant (map and set): in every reachable state num_elements *)
(* is the number of LIVE slots, and it is the number of distinct            *)
(* (hash, key) pairs that were set/inserted and not successfully removed    *)
(* since (the history is kept while it is clean).                           *)
(***************************************************************************)
C4_Count ==
    /\ table.m_num_elements = LiveCount(table)
    /\ clean => table.m_num_elements = Cardinality(kept)

(***************************************************************************)
(* C5  num_elements <= capacity in every reachable state of the map and of  *)
(* the set, whatever 32-bit hashes the callers pass.                        *)
(***************************************************************************)
C5_Bounded == table.m_num_elements <= table.m_capacity

(***************************************************************************)
(* C6  Idempotent removal (map and set): remove of a pair that is not       *)
(* present returns and leaves num_elements and every slot as they were; and *)
(* once remove has removed a pair, removing it again changes nothing, so    *)
(* the two calls together lower num_elements by one.                        *)
(***************************************************************************)
C6_RemoveAbsent ==
    [][\A p \in CallerPairs :
          Remove(p) =>
              /\ ~hung'
              /\ ~Find(table, p).found => table' = table
              /\ Find(table, p).found =>
                    /\ AfterRemove(table', p) = table'
                    /\ AfterRemove(table', p).m_num_elements
                           = table.m_num_elements - 1]_vars

C9_Iteration ==
    ~hung =>
        /\ Len(Yielded(table)) = table.m_num_elements
        /\ \A i, j \in 1 .. Len(Yielded(table)) :
              (/\ Yielded(table)[i].hash = Yielded(table)[j].hash
               /\ Yielded(table)[i].key = Yielded(table)[j].key) => i = j
        /\ clean => \A i \in 1 .. Len(Yielded(table)) :
                       Yielded(table)[i] \in model

(***************************************************************************)
(* C10  Copy fidelity (map and set): copy of a reachable table into a       *)
(* buffer with capacity >= num_elements returns a table with the same       *)
(* num_elements on which lookup/has agree with the original (found flag and *)
(* value) for every pair.                                                   *)
(***************************************************************************)
C10_CopyFidelity ==
    (kind \in {"map", "set"} /\ ~hung) =>
        \A n \in 1 .. MaxCapacity :
            n >= table.m_num_elements =>
                /\ ~Copy(table, n).diverged
                /\ Copy(table, n).t.m_num_elements = table.m_num_elements
                /\ \A p \in CallerPairs :
                      Find(Copy(table, n).t, p) = Find(table, p)

(***************************************************************************)
(* C11  Copy leaves the source untouched and the two tables independent:    *)
(* a copy that returns changes no slot and not num_elements of the source   *)
(* table, and a later set/insert/remove on either table changes no lookup   *)
(* result of the other.                                                     *)
(***************************************************************************)
C11_CopyIndependent ==
    [][/\ (~copied.made /\ copied'.made) =>
             table' = table
       /\ (copied.made /\ after' = after + 1 /\ clast'.on = "source") =>
             \A q \in CallerPairs : Find(copied'.t, q) = Find(copied.t, q)
       /\ (copied.made /\ after' = after + 1 /\ clast'.on = "copy") =>
             \A q \in CallerPairs : Find(table', q) = Find(table, q)]_vars

\* A table with an entry was copied, and a set/insert/remove on one of the
\* two tables has since changed a lookup result of that table only.
C11_Witness ==
    /\ kind \in {"map", "set"} /\ ~hung
    /\ copied.made /\ after = 1 /\ clast.on = "copy"
    /\ table.m_num_elements >= 1
    /\ \E q \in CallerPairs : Find(table, q).found # Find(copied.t, q).found

(***************************************************************************)
(* C12  Table-full insert is a no-op (map and set): set/insert of a pair    *)
(* that is not found, called with num_elements = capacity, returns and      *)
(* leaves num_elements and every slot as they were.                         *)
(***************************************************************************)
C12_FullNoOp ==
    [][/\ \A c \in CallerSets :
             (kind = "map" /\ table.m_num_elements = table.m_capacity
                /\ ~hashmap_lookup(table, c[1], c[2]).found
                /\ MapSet(c[1], c[2], c[3])) => (~hung' /\ table' = table)
       /\ \A p \in CallerPairs :
             (kind = "set" /\ table.m_num_elements = table.m_capacity
                /\ ~hashset_has(table, p[1], p[2])
                /\ SetInsert(p[1], p[2])) => (~hung' /\ table' = table)]_vars

(***************************************************************************)
(* C13  hashmap set(h,k,v) returns in every reachable state with            *)
(* num_elements < capacity.                                                 *)
(***************************************************************************)
C13_SetTerminates ==
    [][\A c \in CallerSets :
          (kind = "map" /\ table.m_num_elements < table.m_capacity
             /\ MapSet(c[1], c[2], c[3])) => ~hung']_vars

(***************************************************************************)
(* C14  hashmap lookup and remove return in every reachable state, for      *)
(* pairs that are found and pairs that are not, also when no slot is EMPTY. *)
(***************************************************************************)
C14_LookupTerminates ==
    kind = "map" =>
        \A p \in CallerPairs :
            /\ ~hashmap_lookup_pos(table, _hash(p[1]), p[2]).diverged
            /\ ~hashmap_lookup(table, p[1], p[2]).diverged
            /\ ~hashmap_remove(table, p[1], p[2]).diverged

\* A remove that found nothing has just returned in a map of capacity >= 2
\* where no slot is EMPTY and one of them is a tombstone.
C14_Witness ==
    /\ kind = "map" /\ ~hung
    /\ table.m_capacity >= 2
    /\ last = Call("remove", FALSE)
    /\ \A i \in Slots(table) : table.hashes[i] # EMPTY_HASH
    /\ \E i \in Slots(table) : IsTombstone(table, i)

(***************************************************************************)
(* C18  Hash normalisation range: in every call of set, insert and remove   *)
(* the hash the call stores and probes with, _hash of the caller's hash, is *)
(* neither the EMPTY sentinel nor a hash with the DELETED bit set.          *)
(***************************************************************************)
C18_HashRange ==
    [][/\ \A c \in CallerSets :
             MapSet(c[1], c[2], c[3]) => IsStorable(_hash(c[1]))
       /\ \A p \in CallerPairs :
             (\/ MapRemove(p[1], p[2])
              \/ SetInsert(p[1], p[2])
              \/ SetRemove(p[1], p[2])) => IsStorable(_hash(p[1]))]_vars

(***************************************************************************)
(* C19  Caller hashes 0 and 1 are one hash inside the hashmap: once         *)
(* set(h,k,v) with h one of 0, 1 has returned, lookup(h2,k) with h2 the     *)
(* other of the two returns v, and set(h2,k,v) finds the entry and leaves   *)
(* num_elements as it is.                                                   *)
(***************************************************************************)
C19_ZeroIsOne ==
    [][\A c \in CallerSets :
          (kind = "map" /\ c[1] \in {U32(0, 0), U32(0, 1)}
             /\ MapSet(c[1], c[2], c[3]) /\ ~hung') =>
              LET h2 == IF c[1] = U32(0, 0) THEN U32(0, 1) ELSE U32(0, 0)
                  again == hashmap_set(table', h2, c[2], c[3])
              IN  /\ hashmap_lookup(table', h2, c[2]).found
                  /\ hashmap_lookup(table', h2, c[2]).value = c[3]
                  /\ ~again.diverged
                  /\ again.exists
                  /\ again.t.m_num_elements = table'.m_num_elements]_vars

\* set(0,13,.) has inserted its entry next to the one of set(1,42,.): both
\* are found under hash 0 and under hash 1.
C19_Witness ==
    /\ kind = "map" /\ ~hung
    /\ last = Call("set", FALSE)
    /\ table.m_num_elements >= 2
    /\ hashmap_lookup(table, U32(0, 1), 13).found
    /\ hashmap_lookup(table, U32(0, 0), 42).found

(***************************************************************************)
(* C20  A caller hash with bit 31 set (2^31 itself included) is usable:     *)
(* set(h,k,v) on a hashmap with num_elements < capacity returns, lookup(h,k)*)
(* then returns true with v, the entry is in a LIVE slot, and every other   *)
(* pair that was found before is still found.                               *)
(***************************************************************************)
C20_HighBitHash ==
    [][\A c \in CallerSets :
          (kind = "map" /\ IsDeleted(c[1])
             /\ table.m_num_elements < table.m_capacity
             /\ MapSet(c[1], c[2], c[3])) =>
              /\ ~hung'
              /\ hashmap_lookup(table', c[1], c[2]).found
              /\ hashmap_lookup(table', c[1], c[2]).value = c[3]
              /\ \E i \in Slots(table') :
                    /\ IsLive(table', i)
                    /\ table'.hashes[i] = _hash(c[1])
                    /\ table'.keys[i] = c[2]
                    /\ table'.values[i] = c[3]
              /\ \A q \in CallerPairs :
                    (/\ ~SameEntry(<<c[1], c[2]>>, q)
                     /\ hashmap_lookup(table, q[1], q[2]).found) =>
                        hashmap_lookup(table', q[1], q[2]).found]_vars

(***************************************************************************)
(* Vocabulary of the memorypool properties.                                *)
(***************************************************************************)
\* The pointers that successive allocate calls on p return, up to the first
\* nullptr (or the first call that leaves the buffer), at most k of them.
RECURSIVE AllocateAll(_, _)
AllocateAll(p, k) ==
    LET r == memorypool_allocate(p)
    IN  IF k = 0 \/ r.ub \/ r.ret = nullptr THEN <<>>
        ELSE <<r.ret>> \o AllocateAll(r.p, k - 1)

\* The elements of a sequence are pairwise different.
Distinct(seq) == \A i, j \in 1 .. Len(seq) : seq[i] = seq[j] => i = j

(***************************************************************************)
(* C15  Pool exhaustion: after any sequence of allocate and valid free      *)
(* calls, allocate returns nullptr exactly when num_elements = capacity at  *)
(* the call, and a failing allocate leaves num_elements, next_free and      *)
(* every slot as they were.                                                 *)
(***************************************************************************)
C15_Exhaustion ==
    [][PoolAllocate =>
          /\ ~ub'
          /\ plast'.ptr = nullptr <=> pool.m_num_elements = pool.m_capacity
          /\ plast'.ptr = nullptr => pool' = pool]_vars

\* allocate has just returned nullptr on a full pool of capacity >= 2 whose
\* elements were handed out in another order than 0, 1, 2, ...: the caller
\* wrote a Velocity into one of them.
C15_Witness ==
    /\ kind = "pool" /\ ~ub
    /\ plast = PoolCall("allocate", nullptr)
    /\ pool.m_capacity >= 2
    /\ pool.m_num_elements = pool.m_capacity
    /\ \E i \in held : pool.m_buffer[i] = 7

(***************************************************************************)
(* C16  Pool distinctness: after any sequence of allocate and valid free    *)
(* calls, a successful allocate returns a slot inside the buffer that is    *)
(* not currently allocated; and capacity consecutive allocations from a     *)
(* fresh pool return capacity distinct slots.                               *)
(***************************************************************************)
C16_Distinct ==
    [][/\ (PoolAllocate /\ plast'.ptr # nullptr) =>
             /\ ~ub'
             /\ InBuffer(pool, plast'.ptr)
             /\ plast'.ptr \notin held
       /\ (kind = "pool" /\ plast.op = "create") =>
             /\ Len(AllocateAll(pool, pool.m_capacity)) = pool.m_capacity
             /\ Distinct(AllocateAll(pool, pool.m_capacity))]_vars

\* A successful allocate has just returned a slot that was freed before,
\* while another slot stays allocated.
C16_Witness ==
    /\ kind = "pool" /\ ~ub
    /\ plast.op = "allocate" /\ plast.ptr # nullptr
    /\ pool.m_capacity >= 3
    /\ Cardinality(held) >= 2
    /\ pool.next_free < plast.ptr

(***************************************************************************)
(* C17  Pool count invariant: under valid use num_elements is the number of *)
(* slots handed out and not yet freed, 0 <= num_elements <= capacity, and   *)
(* once every outstanding slot has been freed, in any order, exactly        *)
(* capacity further allocations succeed before allocate fails.              *)
(***************************************************************************)
C17_PoolCount ==
    kind = "pool" =>
        /\ ~ub
        /\ pool.m_num_elements = Cardinality(held)
        /\ 0 <= pool.m_num_elements
        /\ pool.m_num_elements <= pool.m_capacity
        /\ held = {} =>
              /\ Len(AllocateAll(pool, pool.m_capacity + 1)) = pool.m_capacity
              /\ Distinct(AllocateAll(pool, pool.m_capacity + 1))

\* Every slot of a pool of capacity >= 2 has been freed again, the lowest
\* one not last.
C17_Witness ==
    /\ kind = "pool" /\ ~ub
    /\ plast.op = "free"
    /\ held = {}
    /\ pool.m_capacity >= 2
    /\ pool.next_free # 0

(***************************************************************************)
(* C21  hashmap get agrees with lookup: for every caller hash h and key k   *)
(* for which lookup(h,k) returns true, get(h,k) returns that value, and get *)
(* reads the value of no entry that lookup(h,k) does not find.              *)
(***************************************************************************)
C21_GetAgrees ==
    (kind = "map" /\ ~hung) =>
        \A p \in CallerPairs :
            LET l == hashmap_lookup(table, p[1], p[2])
                g == hashmap_get(table, p[1], p[2])
            IN  /\ l.found => (g.found /\ g.values = {l.value})
                /\ ~l.found => ~g.found

\* The sequences of n caller pairs that name n different entries.
DistinctEntries(n) ==
    {e \in [1 .. n -> CallerPairs] :
        \A i, j \in 1 .. n : SameEntry(e[i], e[j]) => i = j}

\* The table after set/insert of the entries e[i], e[i + 1], ... in turn.
RECURSIVE SetAll(_, _, _)
SetAll(t, e, i) ==
    IF i > Len(e) THEN [t |-> t, diverged |-> FALSE]
    ELSE LET r == IF kind = "map"
                  THEN hashmap_set(t, e[i][1], e[i][2], 37)
                  ELSE hashset_insert(t, e[i][1], e[i][2])
         IN  IF r.diverged THEN [t |-> r.t, diverged |-> TRUE]
             ELSE SetAll(r.t, e, i + 1)

(***************************************************************************)
(* C22  A map or set created over CF_HASHMAP_GET_BUFFER_SIZE /              *)
(* CF_HASHSET_GET_BUFFER_SIZE bytes for n elements has capacity n, and n    *)
(* set/insert calls of n different entries with no remove in between leave  *)
(* num_elements = n and every one of the n entries found.                   *)
(***************************************************************************)
C22_FillToCapacity ==
    (kind \in {"map", "set"} /\ last.op = "create" /\ ~hung) =>
        /\ \E n \in 1 .. MaxCapacity :
              /\ table.m_capacity = n
              /\ table = IF kind = "map"
                         THEN hashmap_create(CF_HASHMAP_GET_BUFFER_SIZE(n))
                         ELSE hashset_create(CF_HASHSET_GET_BUFFER_SIZE(n))
        /\ \A e \in DistinctEntries(table.m_capacity) :
              LET r == SetAll(table, e, 1)
              IN  /\ ~r.diverged
                  /\ r.t.m_num_elements = table.m_capacity
                  /\ \A i \in 1 .. Len(e) : Find(r.t, e[i]).found

\* The load factor above which copy() should be used, in percent.
LoadFactorPercent == 95

\* ceil(n / L) for the load factor L = LoadFactorPercent / 100.
CeilOverLoadFactor(n) == (n * 100 + LoadFactorPercent - 1) \div LoadFactorPercent

\* Bytes of one entry of the table: hash, key and value, or hash and value.
Stride == IF kind = "map" THEN SizeofHash + SizeofKey + SizeofValue
                          ELSE SizeofHash + SizeofElem

\* The byte count the sizing macro of the table returns for n elements.
GetBufferSize(n) == IF kind = "map" THEN CF_HASHMAP_GET_BUFFER_SIZE(n)
                                    ELSE CF_HASHSET_GET_BUFFER_SIZE(n)

\* create of the table over a buffer of buffer_size bytes.
Create(buffer_size) == IF kind = "map" THEN hashmap_create(buffer_size)
                                       ELSE hashset_create(buffer_size)

(***************************************************************************)
(* C23  Sizing-helper contract: for every target element count n >= 1 the   *)
(* byte count of the sizing macro is at least stride * ceil(n / 0.95), so   *)
(* the table created over it holds n elements with a load factor of at      *)
(* most 0.95.                                                               *)
(***************************************************************************)
C23_SizingHeadroom ==
    (kind \in {"map", "set"} /\ last.op = "create") =>
        \A n \in 1 .. MaxCapacity :
            table = Create(GetBufferSize(n)) =>
                /\ GetBufferSize(n) >= Stride * CeilOverLoadFactor(n)
                /\ n * 100 <= LoadFactorPercent * table.m_capacity

(***************************************************************************)
(* C24  The hashset is the hashmap with the key region elided: the same     *)
(* sequence of insert/remove calls on a hashset and of set/remove calls on  *)
(* a hashmap of equal capacity (map key = set value, each insert issued     *)
(* with num_elements < capacity) keeps num_elements equal and has(h,v)      *)
(* equal to the found flag of lookup(h,v) after every step.                 *)
(***************************************************************************)
C24_SetIsMap ==
    kind = "twin" =>
        /\ ~twin.diverged
        /\ twin.set.m_num_elements = twin.map.m_num_elements
        /\ \A p \in TwinPairs :
              hashset_has(twin.set, p[1], p[2])
                  = hashmap_lookup(twin.map, p[1], p[2]).found

(***************************************************************************)
(* C25  Legacy local-probing map: after cf_hashmap_remove(h,k) of a present *)
(* key, cf_hashmap_lookup(h,k) returns false, for any prior sequence of set *)
(* and remove calls, removals of other keys that collide with k included.   *)
(***************************************************************************)
C25_LegacyRemove ==
    [][\A p \in LegacyPairs :
          (/\ kind = "legacy"
           /\ cf_hashmap_lookup(legacy, p[1], p[2]).found
           /\ LegacyRemove(p[1], p[2])) =>
              ~cf_hashmap_lookup(legacy', p[1], p[2]).found]_vars

\* The probe distance of slot pos as the spec defines it: position minus
\* ideal position of the stored hash, modulo capacity.
ModDistance(t, pos) ==
    (pos - U32Mod(ClearDeleted(t.hashes[pos]), t.m_capacity)) % t.m_capacity

\* The slots i .. j are one occupied run: none of them is EMPTY.
OccupiedRun(t, i, j) == \A k \in i .. j : t.hashes[k] # EMPTY_HASH

\* Along an occupied run of t the probe distance grows by at most 1 per slot.
RobinHoodOrder(t) ==
    \A i, j \in Slots(t) :
        (i < j /\ OccupiedRun(t, i, j)) =>
            ModDistance(t, j) <= ModDistance(t, i) + (j - i)

\* No non-EMPTY slot of t lies below the ideal position of its hash: for
\* every slot pos - ideal_pos in _get_probe_distance does not underflow.
NoneWrapped(t) ==
    \A pos \in Slots(t) :
        t.hashes[pos] # EMPTY_HASH =>
            pos >= U32Mod(ClearDeleted(t.hashes[pos]), t.m_capacity)

C27_ProbeDistanceModulo ==
    kind \in {"map", "set"} =>
        \A pos \in Slots(table) :
            table.hashes[pos] # EMPTY_HASH =>
                /\ _get_probe_distance(table, pos, table.hashes[pos])
                       = U32(0, ModDistance(table, pos))
                /\ _get_probe_distance(table, pos, table.hashes[pos]).hi = 0
                /\ _get_probe_distance(table, pos, table.hashes[pos]).lo
                       < table.m_capacity

\* The slot _lookup_pos reports for the pair p of a call on t.
FoundPos(t, p) ==
    IF kind = "map" THEN hashmap_lookup_pos(t, _hash(p[1]), p[2]).pos
                    ELSE hashset_lookup_pos(t, _hash(p[1]), p[2]).pos

\* This step is a remove on the table that returned after finding its entry.
RemovedStep ==
    /\ kind \in {"map", "set"}
    /\ ~hung'
    /\ last' = Call("remove", TRUE)
    /\ \/ ~copied.made /\ ~copied'.made
       \/ /\ copied.made /\ after' = after + 1
          /\ clast' = CopyCall("source", Call("remove", TRUE))

(***************************************************************************)
(* C28  Remove only tombstones its slot: a successful remove sets the       *)
(* DELETED bit of exactly the found slot's hash, leaves the low 31 bits of  *)
(* that hash and the slot's key and value unchanged, changes no other slot, *)
(* and decrements num_elements by 1; the probe distance of the slot is the  *)
(* same before and after.                                                   *)
(***************************************************************************)
C28_RemoveTombstonesSlot ==
    [][RemovedStep =>
          \E p \in CallerPairs :
              /\ Find(table, p).found
              /\ LET pos == FoundPos(table, p)
                 IN  /\ ~IsDeleted(table.hashes[pos])
                     /\ IsDeleted(table'.hashes[pos])
                     /\ ClearDeleted(table'.hashes[pos])
                            = ClearDeleted(table.hashes[pos])
                     /\ \A q \in Slots(table) \ {pos} :
                            table'.hashes[q] = table.hashes[q]
                     /\ table'.keys = table.keys
                     /\ table'.values = table.values
                     /\ table'.m_capacity = table.m_capacity
                     /\ table'.m_num_elements = table.m_num_elements - 1
                     /\ _get_probe_distance(table', pos, table'.hashes[pos])
                            = _get_probe_distance(table, pos,
                                                  table.hashes[pos])]_vars

\* A remove found its entry in a table that holds another LIVE entry whose
\* slot it left alone.
C28_Witness ==
    /\ kind \in {"map", "set"} /\ ~hung
    /\ last = Call("remove", TRUE)
    /\ ~copied.made
    /\ \E i, j \in Slots(table) : IsTombstone(table, i) /\ IsLive(table, j)

\* Two LIVE slots of t hold the same (normalised hash, key) pair; the
\* hashset keeps its elements in the values region.
HasDuplicate(t, isMap) ==
    \E i, j \in Slots(t) :
        /\ i # j
        /\ IsLive(t, i) /\ IsLive(t, j)
        /\ t.hashes[i] = t.hashes[j]
        /\ IF isMap THEN t.keys[i] = t.keys[j] ELSE t.values[i] = t.values[j]

(***************************************************************************)
(* C29  No duplicate keys: in every reachable state of the robin-hood map   *)
(* and set at most one LIVE slot holds any given (normalised hash, key)     *)
(* pair, for any sequence of set/insert/remove, re-inserting a key after    *)
(* removing it or after removing keys that collide with it included.        *)
(***************************************************************************)
C29_NoDuplicateKeys ==
    /\ kind \in {"map", "set"} => ~HasDuplicate(table, kind = "map")
    /\ kind = "twin" => /\ ~HasDuplicate(twin.map, TRUE)
                        /\ ~HasDuplicate(twin.set, FALSE)

\* insert(h, v) on the hashset t, for every pair of `pairs`, keeps has()
\* true for every other element of `pairs` that t reports.
KeepsOthers(t, pairs) ==
    \A p, q \in pairs :
        (~SameEntry(p, q) /\ hashset_has(t, q[1], q[2])) =>
            hashset_has(hashset_insert(t, p[1], p[2]).t, q[1], q[2])

(***************************************************************************)
(* C30  Robin-hood hashset insert never loses another element: for any      *)
(* reachable state and any insert(h,v), every element (h',v') different     *)
(* from (h,v) for which has(h',v') was true before the call is still        *)
(* reported by has afterwards, whether or not the insert placed v.          *)
(***************************************************************************)
C30_InsertKeepsOthers ==
    /\ (kind = "set" /\ ~hung /\ MayGrow /\ MayCall) =>
           KeepsOthers(table, CallerPairs)
    /\ (/\ kind = "twin" /\ ~twin.diverged
        /\ twin.map.m_num_elements < twin.map.m_capacity
        /\ twin.set.m_num_elements < twin.set.m_capacity) =>
           KeepsOthers(twin.set, TwinPairs)

\* Every slot of t that is not EMPTY is not EMPTY in u either, and a
\* tombstone of t is a tombstone or a LIVE slot of u.
KeepsOccupied(t, u) ==
    \A pos \in Slots(t) :
        t.hashes[pos] # EMPTY_HASH =>
            /\ u.hashes[pos] # EMPTY_HASH
            /\ IsTombstone(t, pos) => (IsTombstone(u, pos) \/ IsLive(u, pos))

\* The number of EMPTY slots of t.
NumEmpty(t) == Cardinality({pos \in Slots(t) : t.hashes[pos] = EMPTY_HASH})

(***************************************************************************)
(* C31  Slots never revert to EMPTY: no set/insert/remove of the map or the *)
(* set changes a non-EMPTY slot (LIVE or tombstone) into a slot whose hash  *)
(* is 0, for arbitrary caller hashes; the number of EMPTY slots never       *)
(* increases and a tombstone disappears only by becoming a LIVE entry.      *)
(***************************************************************************)
C31_NeverBackToEmpty ==
    [][/\ KeepsOccupied(table, table')
       /\ NumEmpty(table') <= NumEmpty(table)
       /\ KeepsOccupied(twin.map, twin'.map)
       /\ KeepsOccupied(twin.set, twin'.set)]_vars

\* The cursors a caller can hold for t: iter_start, or one iter_next left.
Cursors(t) == {[offset |-> o] : o \in 0 .. t.m_capacity}

\* The LIVE slots of t at or after the cursor.
LiveFrom(t, iter) == {pos \in Slots(t) : pos >= iter.offset /\ IsLive(t, pos)}

\* The first of them.
FirstLive(t, iter) ==
    CHOOSE pos \in LiveFrom(t, iter) : \A q \in LiveFrom(t, iter) : pos <= q

\* iter_next returns the first LIVE slot at or after the cursor and moves
\* the cursor behind it.
ReturnsFirstLive(t, iter) ==
    LET r == iter_next(t, iter)
    IN  LiveFrom(t, iter) # {} =>
            /\ r.ok
            /\ r.iter.offset = FirstLive(t, iter) + 1
            /\ r.key = t.keys[FirstLive(t, iter)]
            /\ r.value = t.values[FirstLive(t, iter)]
            /\ \A pos \in iter.offset .. FirstLive(t, iter) - 1 :
                   t.hashes[pos] = EMPTY_HASH \/ IsTombstone(t, pos)

(***************************************************************************)
(* C32  Iterator exhaustion: when iter_next of the map or set finds no LIVE *)
(* slot at or after cursor.offset it reports exhausted and sets             *)
(* cursor.offset to capacity; when it finds one at position p it returns    *)
(* that entry and sets cursor.offset to p + 1, skipping every EMPTY and     *)
(* tombstone slot.                                                          *)
(***************************************************************************)
C32_ExhaustedAtCapacity ==
    kind \in {"map", "set"} =>
        \A iter \in Cursors(table) :
            /\ ReturnsFirstLive(table, iter)
            /\ LiveFrom(table, iter) = {} =>
                   /\ ~iter_next(table, iter).ok
                   /\ iter_next(table, iter).iter.offset = table.m_capacity

(***************************************************************************)
(* C32 (amended)  When iter_next finds no LIVE slot at or after             *)
(* cursor.offset it reports exhausted and leaves cursor.offset as it was;   *)
(* when it finds one at position p it returns that entry and sets           *)
(* cursor.offset to p + 1, skipping every EMPTY and tombstone slot.         *)
(***************************************************************************)
C32_ExhaustedKeepsOffset ==
    kind \in {"map", "set"} =>
        \A iter \in Cursors(table) :
            /\ ReturnsFirstLive(table, iter)
            /\ LiveFrom(table, iter) = {} =>
                   /\ ~iter_next(table, iter).ok
                   /\ iter_next(table, iter).iter = iter

\* The first iter_next skips a tombstone and returns slot 1; the second
\* finds nothing in the last slot and leaves the cursor at 2 of 3.
C32_Witness ==
    /\ kind \in {"map", "set"} /\ ~hung
    /\ table.m_capacity = 3
    /\ IsTombstone(table, 0) /\ IsLive(table, 1) /\ ~IsLive(table, 2)
    /\ iter_next(table, iter_start).ok
    /\ iter_next(table, iter_start).iter.offset = 2
    /\ ~iter_next(table, iter_next(table, iter_start).iter).ok
    /\ iter_next(table, iter_next(table, iter_start).iter).iter.offset = 2

\* The slots of t that are not EMPTY.
Occupied(t) == {pos \in Slots(t) : t.hashes[pos] # EMPTY_HASH}

(***************************************************************************)
(* C33  Copy compacts: for any reachable source table and destination       *)
(* capacity >= source num_elements, the table copy returns holds no         *)
(* tombstone: exactly num_elements of its slots are non-EMPTY and all of    *)
(* them are LIVE, however many tombstones the source holds.                 *)
(***************************************************************************)
C33_CopyCompacts ==
    (kind \in {"map", "set"} /\ ~hung) =>
        \A n \in 1 .. MaxCapacity :
            n >= table.m_num_elements =>
                /\ ~Copy(table, n).diverged
                /\ \A pos \in Occupied(Copy(table, n).t) :
                       IsLive(Copy(table, n).t, pos)
                /\ Cardinality(Occupied(Copy(table, n).t))
                       = Copy(table, n).t.m_num_elements

\* The source holds two tombstones and a LIVE entry; its copy into a buffer
\* of the same capacity holds that entry and nothing else.
C33_Witness ==
    /\ kind \in {"map", "set"} /\ ~hung
    /\ table.m_capacity = 3 /\ table.m_num_elements = 1
    /\ Cardinality({pos \in Slots(table) : IsTombstone(table, pos)}) = 2
    /\ Cardinality({pos \in Slots(table) : IsLive(table, pos)}) = 1
    /\ Cardinality(Occupied(Copy(table, 3).t)) = 1

\* The buffer sizes handed to create: every byte count up to one byte short
\* of a buffer for MaxCapacity + 1 entries.
BufferSizes == 0 .. GetBufferSize(MaxCapacity) + Stride - 1

\* t answers like an empty table: it counts no element, every hash slot is
\* EMPTY, and with a slot to probe no lookup/has finds anything and the
\* iteration yields nothing.
IsFresh(t) ==
    /\ t.m_num_elements = 0
    /\ \A pos \in Slots(t) : t.hashes[pos] = EMPTY_HASH
    /\ t.m_capacity >= 1 =>
           /\ \A p \in CallerPairs : ~Find(t, p).found
           /\ iterate(t) = <<>>

(***************************************************************************)
(* C34  Construction: create over a buffer of buffer_size bytes yields      *)
(* capacity = floor(buffer_size / stride) with stride = 4 + key_size +      *)
(* value_size (key_size 0 for the set), num_elements = 0 and every hash     *)
(* slot EMPTY, so on a fresh table with capacity >= 1 every lookup/has      *)
(* reports not-found and iteration yields nothing.                          *)
(***************************************************************************)
C34_Construction ==
    (kind \in {"map", "set"} /\ last.op = "create") =>
        /\ \A b \in BufferSizes :
               /\ Create(b).m_capacity * Stride <= b
               /\ b < (Create(b).m_capacity + 1) * Stride
               /\ IsFresh(Create(b))
        /\ \E b \in BufferSizes : table = Create(b)
        /\ IsFresh(table)

\* The table of capacity 2 right after create; a buffer one byte short of
\* three entries gives the same table.
C34_Witness ==
    /\ kind \in {"map", "set"} /\ ~hung
    /\ last.op = "create"
    /\ table.m_capacity = 2
    /\ table = Create(GetBufferSize(3) - 1)

\* The slots reached from slot i by following the link fields, i first, at
\* most k of them; the walk stops at a link that is the index of no slot.
RECURSIVE FreeChain(_, _, _)
FreeChain(p, i, k) ==
    IF k = 0 \/ ~InBuffer(p, i) THEN <<>>
    ELSE <<i>> \o FreeChain(p, p.m_buffer[i], k - 1)

\* The slots allocate hands out next, in order: as many links as the pool
\* has free slots.
FreeList(p) == FreeChain(p, p.next_free, p.m_capacity - p.m_num_elements)

\* Every slot the links lead to from next_free, however far one follows.
Reachable(p) ==
    {FreeChain(p, p.next_free, p.m_capacity + 1)[n] :
        n \in 1 .. Len(FreeChain(p, p.next_free, p.m_capacity + 1))}

(***************************************************************************)
(* C35  Pool free-list invariant as the spec states it: in every reachable  *)
(* state under valid use the list starting at next_free and threaded        *)
(* through the link fields has exactly capacity - num_elements reachable    *)
(* nodes, all of them free slots, and never leads into an in-use slot.      *)
(***************************************************************************)
C35_SpecFreeList ==
    kind = "pool" =>
        /\ Cardinality(Reachable(pool)) = pool.m_capacity - pool.m_num_elements
        /\ Reachable(pool) \cap held = {}

(***************************************************************************)
(* C35 (amended)  In every reachable state under valid use the first        *)
(* capacity - num_elements slots reached from next_free through the link    *)
(* fields are pairwise distinct, lie in the buffer and are exactly the free *)
(* slots.  The list ends by count: the link of its last slot, and next_free *)
(* of a full pool, may name an in-use slot.                                 *)
(***************************************************************************)
C35_FreeListByCount ==
    kind = "pool" =>
        /\ Len(FreeList(pool)) = pool.m_capacity - pool.m_num_elements
        /\ Distinct(FreeList(pool))
        /\ {FreeList(pool)[n] : n \in 1 .. Len(FreeList(pool))}
              = (0 .. pool.m_capacity - 1) \ held

\* Two slots were freed in another order than they were allocated, a third
\* is in use, and the link of the last free slot names the slot in use.
C35_Witness ==
    /\ kind = "pool" /\ ~ub
    /\ pool.m_capacity = 3
    /\ Cardinality(held) = 1
    /\ plast.op = "free"
    /\ FreeList(pool)[1] > FreeList(pool)[2]
    /\ pool.m_buffer[FreeList(pool)[2]] \in held

(***************************************************************************)
(* C36  Pool reuse is LIFO: under valid use free(p) immediately followed by *)
(* allocate() returns p; the free list is a stack: free(p) puts p in front  *)
(* of the slots allocate hands out next and leaves their order, allocate    *)
(* returns the first of them and leaves the order of the rest, so free      *)
(* slots come back in reverse order of their freeing; allocate changes the  *)
(* link field of no slot other than the one it returns.                     *)
(***************************************************************************)
C36_Lifo ==
    [][/\ (kind = "pool" /\ held' # held /\ held' \subseteq held) =>
             /\ plast'.op = "free"
             /\ FreeList(pool') = <<plast'.ptr>> \o FreeList(pool)
             /\ memorypool_allocate(pool').ret = plast'.ptr
       /\ (kind = "pool" /\ held' # held /\ held \subseteq held') =>
             /\ plast'.op = "allocate"
             /\ <<plast'.ptr>> \o FreeList(pool') = FreeList(pool)
             /\ \A i \in (0 .. pool.m_capacity - 1) \ {plast'.ptr} :
                    pool'.m_buffer[i] = pool.m_buffer[i]]_vars

\* A slot was just freed while another one stays free behind it and a third
\* is in use: the next allocate returns the slot freed last, not the lowest
\* free one.
C36_Witness ==
    /\ kind = "pool" /\ ~ub
    /\ pool.m_capacity = 3
    /\ plast.op = "free"
    /\ Cardinality(held) = 1
    /\ memorypool_allocate(pool).ret = plast.ptr
    /\ FreeList(pool)[2] < plast.ptr

(***************************************************************************)
(* C37  Pool index safety: in every reachable state under valid use with    *)
(* capacity >= 1, next_free is an index in [0, capacity) and every slot     *)
(* index at which allocate or free reads or writes a link field lies in     *)
(* [0, capacity), also when the pool is full or has a single free slot, and *)
(* whatever payload the caller wrote into in-use slots.                     *)
(***************************************************************************)
C37_IndexSafety ==
    (kind = "pool" /\ pool.m_capacity >= 1) =>
        /\ ~ub
        /\ InBuffer(pool, pool.next_free)
        /\ ~memorypool_allocate(pool).ub
        /\ pool.m_num_elements < pool.m_capacity =>
               InBuffer(pool, pool.m_buffer[pool.next_free])
        /\ \A ptr \in held :
               /\ InBuffer(pool, ptr)
               /\ InBuffer(pool, memorypool_free(pool, ptr).next_free)

\* A pool with a single free slot, the caller's payload 7 in a slot in use,
\* and the link of the free slot naming a slot in use.
C37_Witness ==
    /\ kind = "pool" /\ ~ub
    /\ pool.m_capacity = 3
    /\ pool.m_num_elements = 2
    /\ \E i \in held : pool.m_buffer[i] = 7
    /\ pool.m_buffer[pool.next_free] \in held

\* The filled slots of the legacy map that hold the entry (hash, key).
FilledWith(map, hash, key) ==
    {pos \in 0 .. map.capacity - 1 :
        /\ map.flags[pos].filled
        /\ map.hashes[pos] = hash
        /\ map.keys[pos] = key}

(***************************************************************************)
(* C38  Legacy local-probing map never holds a key twice: after any         *)
(* sequence of set and remove calls at most one filled slot holds any given *)
(* (hash, key), and a set of an already present key on a non-full table     *)
(* leaves num_elements unchanged, also when an earlier colliding key was    *)
(* removed.                                                                 *)
(***************************************************************************)
C38_LegacyNoDuplicates ==
    kind = "legacy" =>
        \A p \in LegacyPairs :
            /\ Cardinality(FilledWith(legacy, p[1], p[2])) <= 1
            /\ (/\ FilledWith(legacy, p[1], p[2]) # {}
                /\ legacy.num_elements < legacy.capacity) =>
                   cf_hashmap_set(legacy, p[1], p[2], 37).num_elements
                       = legacy.num_elements
====
